---- MODULE Spec2Model ----
(***************************************************************************)
(* A model of the crawl engine of go_check_links (src/main.go): the        *)
(* Crawler's visited registry (markVisited), the recursive crawlURL tasks  *)
(* with their WaitGroup accounting, the goroutine that closes the result   *)
(* channel, and the Wait loop that drains it.                              *)
(*                                                                         *)
(* The web site being crawled and the outcome of every HTTP request are    *)
(* the environment: the site is drawn in Init, the outcome of a request is *)
(* drawn when the request is made.                                         *)
(***************************************************************************)
EXTENDS Naturals, Integers, Sequences, FiniteSets, Bags, TLC

VARIABLES
    startURL,      \* Crawler.startURL (immutable after NewCrawler)
    maxNum,        \* Crawler.maxNum   (immutable after NewCrawler)
    site,          \* environment: URL string -> links extractLinks finds in that page
    visited,       \* Crawler.visited: the set of keys mapped to true
    visitedCount,  \* Crawler.visitedCount
    wg,            \* Crawler.wg: the WaitGroup counter
    results,       \* Crawler.results: the buffer of the channel
    closed,        \* whether close(c.results) has run
    tasks,         \* the crawlURL goroutines, a bag of task records
    closerPc,      \* the anonymous goroutine of Run
    mainPc,        \* the caller of Run and Wait
    allResults,    \* Wait's local allResults
    cancelled,     \* whether ctx has been cancelled
    panicked,      \* a runtime panic: send on / close of a closed channel, negative WaitGroup
    brokenLinks,   \* main's local brokenLinks
    logLines,      \* the [OK] / [BROKEN] tag main logs for each result, in order
    sentLog        \* history: every LinkStatus sent on c.results, in the order of the sends

vars == <<startURL, maxNum, site, visited, visitedCount, wg, results, closed,
          tasks, closerPc, mainPc, allResults, cancelled, panicked,
          brokenLinks, logLines, sentLog>>

----------------------------------------------------------------------------
(* Bounds of the model. *)

\* The largest claim limit drawn in Init (0 means no limit).
MaxMaxNum == 2

\* The capacity of the result channel in the model. The program's buffer
\* holds 1000 entries (NewCrawler); a capacity below the number of results
\* of a run makes producers block, which a capacity of 1000 never does on
\* the sites below.
ResultsCap == 2

----------------------------------------------------------------------------
(* URLs. A *url.URL is a record of scheme, host and path; the host is a    *)
(* sequence of characters so that case folding is computed, not assumed.   *)

RECURSIVE Join(_)
Join(s) == IF s = <<>> THEN "" ELSE Head(s) \o Join(Tail(s))

\* url.URL.String for a URL with scheme, host and path only: the host is
\* written as it is stored, in its own letter case.
Render(u) == u.scheme \o "://" \o Join(u.host) \o u.path

\* Simple case folding of one character, on the letters the hosts use.
FoldChar(c) ==
    CASE c = "A" -> "a"
      [] c = "B" -> "b"
      [] c = "C" -> "c"
      [] c = "M" -> "m"
      [] c = "O" -> "o"
      [] OTHER -> c

\* strings.EqualFold
EqualFold(s, t) ==
    /\ Len(s) = Len(t)
    /\ \A k \in 1..Len(s) : FoldChar(s[k]) = FoldChar(t[k])

URL(scheme, host, path) == [scheme |-> scheme, host |-> host, path |-> path]

a_com == <<"a", ".", "c", "o", "m">>
A_COM == <<"A", ".", "C", "O", "M">>
b_com == <<"b", ".", "c", "o", "m">>

Ux  == URL("https", a_com, "/x")
Uy  == URL("https", a_com, "/y")
UY  == URL("https", A_COM, "/y")
Uz  == URL("https", a_com, "/z")
Uv  == URL("https", a_com, "/v")
Uw  == URL("https", a_com, "/w")
Hy  == URL("http",  a_com, "/y")
By  == URL("https", b_com, "/y")

URLs == {Ux, Uy, UY, Uz, Uv, Uw, Hy, By}

\* u.String() for the URLs of the model, rendered once.
Rendered == [u \in URLs |-> Render(u)]
String(u) == Rendered[u]

URLStrings == {String(u) : u \in URLs}

----------------------------------------------------------------------------
(* The environment: sites and HTTP responses. *)

\* A site gives, for the URL string of each page, the absolute URLs that
\* extractLinks returns for the page's document, in document order.
SiteOf(f) == [s \in URLStrings |-> IF s \in DOMAIN f THEN f[s] ELSE <<>>]

\* A cyclic site: a page linking to itself, a link repeated in one page, a
\* cycle of two pages, links out of scope and two spellings of one host.
CycleSite ==
    SiteOf(String(Ux) :> <<Ux, Uy, Uy>> @@
           String(Uy) :> <<UY, Hy>> @@
           String(UY) :> <<Uy, By>>)

\* An acyclic fan: the seed links to five distinct in-scope pages.
FanSite == SiteOf(String(Ux) :> <<Uy, UY, Uz, Uv, Uw>>)

\* A triangle: a cycle through three pages, the third offered by the seed
\* and by the second page.
TriangleSite ==
    SiteOf(String(Ux) :> <<Uy, Uz>> @@
           String(Uy) :> <<Uz>> @@
           String(Uz) :> <<Ux>>)

\* The claim limits the fan is crawled under, those of a seed with five
\* links and a limit of two; without a limit its five sibling fetches
\* interleave freely.
FanLimits == {1, 2}

\* The pairs of site and claim limit a run starts from.
Configs ==
    ({CycleSite, TriangleSite} \X (0..MaxMaxNum)) \cup ({FanSite} \X FanLimits)

\* What NewRequestWithContext and client.Do give crawlURL: the status of the
\* response (0 when there is none), the error ("nil" when there is none),
\* and for a response whether its Content-Type contains text/html and
\* whether html.Parse succeeds on its body.
Response(status, err, html, parsed) ==
    [status |-> status, err |-> err, html |-> html, parsed |-> parsed]

NoResponse == Response(0, "nil", FALSE, FALSE)

\* (mutant) the request is made without the context: a cancellation does
\* not reach the fetch.
Responses_IgnoresCancel(isCancelled) ==
    { Response(0, "transport", FALSE, FALSE),
      Response(200, "nil", TRUE, TRUE),
      Response(200, "nil", FALSE, FALSE) }

Responses(isCancelled) ==
    IF isCancelled
    THEN {Response(0, "canceled", FALSE, FALSE)}
    ELSE { \* no response: the request could not be built (line 143) or
           \* the transport failed (DNS, connect, TLS, timeout)
           Response(0, "transport", FALSE, FALSE),
           \* client.Do returns the last response together with the error
           \* when the redirect policy stops the request
           Response(302, "redirect", FALSE, FALSE),
           Response(200, "nil", TRUE, TRUE),
           Response(200, "nil", TRUE, FALSE),
           Response(404, "nil", TRUE, TRUE),
           Response(200, "nil", FALSE, FALSE) }

LinkStatus(url, status, err) == [URL |-> url, Status |-> status, Err |-> err]

----------------------------------------------------------------------------
(* Tasks: one record per crawlURL goroutine. *)

\* u, ref: the parameters (ref = "" for a nil referer); pc: where the
\* goroutine stands; st: how it left lines 127-135 (filtered, rejected or
\* claimed);
\* resp: the locals resp, status and err; i: the index of the range loop.
Task(u, ref) ==
    [u |-> u, ref |-> ref, pc |-> "start", st |-> "new", resp |-> NoResponse, i |-> 1]

Replace(t, t2) == (tasks (-) SetToBag({t})) (+) SetToBag({t2})

Running == {t \in BagToSet(tasks) : t.pc # "done"}

----------------------------------------------------------------------------
(* The visited registry. *)

\* (mutant) the scheme is not compared.
shouldCrawl_AnyScheme(u) == EqualFold(u.host, startURL.host)

\* (mutant) the host is compared with ==, in its letter case.
shouldCrawl_CaseSensitive(u) ==
    u.host = startURL.host /\ u.scheme = startURL.scheme

\* shouldCrawl: same host ignoring case and same scheme as the start URL.
shouldCrawl(u) ==
    ~(~EqualFold(u.host, startURL.host) \/ u.scheme # startURL.scheme)

\* (mutant) the limit test is off by one: > for >=.
LimitReached_OffByOne == maxNum > 0 /\ visitedCount > maxNum

\* Line 111: the claim limit is set and has been reached.
LimitReached == maxNum > 0 /\ visitedCount >= maxNum

\* (mutant) the test of c.visited[u] is missing.
markVisitedReturns_NoDedup(s) ==
    IF LimitReached THEN FALSE ELSE TRUE

\* The value markVisited(s) returns in the current state.
markVisitedReturns(s) ==
    IF LimitReached THEN FALSE
    ELSE IF s \in visited THEN FALSE
    ELSE TRUE

\* (mutant) visitedCount is incremented before the tests, on every call.
markVisited_CountsEveryCall(s) ==
    /\ visitedCount' = visitedCount + 1
    /\ visited' = IF markVisitedReturns(s) THEN visited \cup {s} ELSE visited

\* (mutant) the key is not recorded in c.visited.
markVisited_NoRecord(s) ==
    IF markVisitedReturns(s)
    THEN /\ visited' = visited
         /\ visitedCount' = visitedCount + 1
    ELSE UNCHANGED <<visited, visitedCount>>

\* markVisited(s), the whole critical section under visitedLock.
markVisited(s) ==
    IF markVisitedReturns(s)
    THEN /\ visited' = visited \cup {s}
         /\ visitedCount' = visitedCount + 1
    ELSE UNCHANGED <<visited, visitedCount>>

----------------------------------------------------------------------------
(* Construction. *)

Init ==
    /\ startURL = Ux
    /\ \E cfg \in Configs : site = cfg[1] /\ maxNum = cfg[2]
    /\ visited = {}
    /\ visitedCount = 0
    /\ wg = 0
    /\ results = <<>>
    /\ closed = FALSE
    /\ tasks = EmptyBag
    /\ closerPc = "idle"
    /\ mainPc = "Run"
    /\ allResults = <<>>
    /\ cancelled = FALSE
    /\ panicked = FALSE
    /\ brokenLinks = <<>>
    /\ logLines = <<>>
    /\ sentLog = <<>>

----------------------------------------------------------------------------
(* Run and Wait. *)

\* Run: register the root, start its goroutine, start the closing goroutine.
Run ==
    /\ mainPc = "Run"
    /\ ~panicked
    /\ wg' = wg + 1
    /\ tasks' = tasks (+) SetToBag({Task(startURL, "")})
    /\ closerPc' = "wg.Wait"
    /\ mainPc' = "Wait"
    /\ UNCHANGED <<brokenLinks, logLines, sentLog,
                   startURL, maxNum, site, visited, visitedCount, results, closed,
                   allResults, cancelled, panicked>>

\* (mutant) the closing goroutine does not wait for the counter.
WgWait_NoWait ==
    /\ closerPc = "wg.Wait"
    /\ ~panicked
    /\ closerPc' = "close"
    /\ UNCHANGED <<brokenLinks, logLines, sentLog,
                   startURL, maxNum, site, visited, visitedCount, wg, results, closed,
                   tasks, mainPc, allResults, cancelled, panicked>>

\* c.wg.Wait() returns once the counter is zero.
WgWait ==
    /\ closerPc = "wg.Wait"
    /\ ~panicked
    /\ wg = 0
    /\ closerPc' = "close"
    /\ UNCHANGED <<brokenLinks, logLines, sentLog,
                   startURL, maxNum, site, visited, visitedCount, wg, results, closed,
                   tasks, mainPc, allResults, cancelled, panicked>>

\* close(c.results); closing a closed channel panics.
Close ==
    /\ closerPc = "close"
    /\ ~panicked
    /\ closerPc' = "done"
    /\ IF closed THEN panicked' = TRUE /\ closed' = closed
                 ELSE closed' = TRUE /\ panicked' = panicked
    /\ UNCHANGED <<brokenLinks, logLines, sentLog,
                   startURL, maxNum, site, visited, visitedCount, wg, results,
                   tasks, mainPc, allResults, cancelled>>

\* (mutant) Wait puts each result it receives at the front of the list.
Receive_Prepend ==
    /\ mainPc = "Wait"
    /\ ~panicked
    /\ results # <<>>
    /\ allResults' = <<Head(results)>> \o allResults
    /\ results' = Tail(results)
    /\ UNCHANGED <<brokenLinks, logLines, sentLog, startURL, maxNum, site, visited,
                   visitedCount, wg, closed, tasks, closerPc, mainPc, cancelled,
                   panicked>>

\* (mutant) Wait keeps only the results that carry no error.
Receive_DropsErrors ==
    /\ mainPc = "Wait"
    /\ ~panicked
    /\ results # <<>>
    /\ allResults' = IF Head(results).Err # "nil" THEN allResults
                     ELSE Append(allResults, Head(results))
    /\ results' = Tail(results)
    /\ UNCHANGED <<brokenLinks, logLines, sentLog, startURL, maxNum, site, visited,
                   visitedCount, wg, closed, tasks, closerPc, mainPc, cancelled,
                   panicked>>

\* One iteration of Wait's range loop: receive and append.
Receive ==
    /\ mainPc = "Wait"
    /\ ~panicked
    /\ results # <<>>
    /\ allResults' = Append(allResults, Head(results))
    /\ results' = Tail(results)
    /\ UNCHANGED <<brokenLinks, logLines, sentLog,
                   startURL, maxNum, site, visited, visitedCount, wg, closed,
                   tasks, closerPc, mainPc, cancelled, panicked>>

\* (mutant) Wait returns as soon as it finds the channel empty, closed or not.
WaitReturn_OnEmpty ==
    /\ mainPc = "Wait"
    /\ ~panicked
    /\ results = <<>>
    /\ mainPc' = "returned"
    /\ UNCHANGED <<brokenLinks, logLines, sentLog, startURL, maxNum, site, visited,
                   visitedCount, wg, results, closed, tasks, closerPc, allResults,
                   cancelled, panicked>>

\* The range loop ends when the channel is closed and drained; Wait returns.
WaitReturn ==
    /\ mainPc = "Wait"
    /\ ~panicked
    /\ results = <<>>
    /\ closed
    /\ mainPc' = "returned"
    /\ UNCHANGED <<brokenLinks, logLines, sentLog,
                   startURL, maxNum, site, visited, visitedCount, wg, results, closed,
                   tasks, closerPc, allResults, cancelled, panicked>>

\* The caller of Run cancels ctx.
Cancel ==
    /\ mainPc = "Wait"
    /\ ~panicked
    /\ ~cancelled
    /\ cancelled' = TRUE
    /\ UNCHANGED <<brokenLinks, logLines, sentLog,
                   startURL, maxNum, site, visited, visitedCount, wg, results, closed,
                   tasks, closerPc, mainPc, allResults, panicked>>

\* (mutant) the lower bound of the error range is tested with > for >=.
isBroken_Above400(r) == r.Err # "nil" \/ (r.Status > 400 /\ r.Status < 600)

\* Line 277: the test that puts a result among the broken links.
isBroken(r) == r.Err # "nil" \/ (r.Status >= 400 /\ r.Status < 600)

\* Lines 283-291: the tag of the line logged for a result.
logTag(r) ==
    IF r.Err # "nil" THEN "BROKEN"
    ELSE IF r.Status >= 400 /\ r.Status < 600 THEN "BROKEN"
    ELSE "OK"

\* Lines 274-292 of main, after Wait has returned: the broken links are
\* collected and one line is logged per result.
Report ==
    /\ mainPc = "returned"
    /\ ~panicked
    /\ brokenLinks' = SelectSeq(allResults, isBroken)
    /\ logLines' = [k \in 1..Len(allResults) |-> logTag(allResults[k])]
    /\ mainPc' = "reported"
    /\ UNCHANGED <<sentLog, startURL, maxNum, site, visited, visitedCount, wg, results,
                   closed, tasks, closerPc, allResults, cancelled, panicked>>

----------------------------------------------------------------------------
(* crawlURL, one action per step between two points where the goroutine    *)
(* can be interleaved with the others.                                     *)

\* The deferred c.wg.Done() (line 125) as goroutine t returns, leaving the
\* record t2; a negative counter panics.
Return(t, t2) ==
    IF wg = 0
    THEN panicked' = TRUE /\ UNCHANGED <<wg, tasks>>
    ELSE /\ wg' = wg - 1
         /\ tasks' = Replace(t, t2)
         /\ UNCHANGED panicked

\* Lines 124-135: the scope filter, then the claim. A candidate out of
\* scope returns before markVisited is called; a candidate that is out of
\* scope or whose claim fails returns at once, which runs the deferred Done.
Claim(t) ==
    /\ t.pc = "start"
    /\ ~panicked
    /\ IF ~shouldCrawl(t.u)
       THEN /\ Return(t, [t EXCEPT !.pc = "done", !.st = "filtered"])
            /\ UNCHANGED <<visited, visitedCount>>
       ELSE /\ markVisited(String(t.u))
            /\ IF markVisitedReturns(String(t.u))
               THEN /\ tasks' = Replace(t, [t EXCEPT !.pc = "fetch", !.st = "claimed"])
                    /\ UNCHANGED <<wg, panicked>>
               ELSE Return(t, [t EXCEPT !.pc = "done", !.st = "rejected"])
    /\ UNCHANGED <<brokenLinks, logLines, sentLog,
                   startURL, maxNum, site, results, closed, closerPc, mainPc,
                   allResults, cancelled>>

\* Lines 137-161: the optional sleep, the request and client.Do. The
\* outcome is the environment's choice; a cancelled ctx makes it fail.
Fetch(t) ==
    /\ t.pc = "fetch"
    /\ ~panicked
    /\ \E r \in Responses(cancelled) :
          tasks' = Replace(t, [t EXCEPT !.pc = "send", !.resp = r])
    /\ UNCHANGED <<brokenLinks, logLines, sentLog,
                   startURL, maxNum, site, visited, visitedCount, wg, results, closed,
                   closerPc, mainPc, allResults, cancelled, panicked>>

\* extractLinks(doc, u) for the document of page u.
extractLinks(u) == site[String(u)]

\* (mutant) a page with an HTTP error status is not parsed for links.
AfterSend_OnlyStatusOK(t) ==
    IF t.resp.err # "nil" THEN "exit"
    ELSE IF t.resp.status >= 400 THEN "exit"
    ELSE IF ~t.resp.html THEN "exit"
    ELSE IF ~t.resp.parsed THEN "exit"
    ELSE IF Len(extractLinks(t.u)) = 0 THEN "exit"
    ELSE "spawn"

\* (mutant) a failed fetch is tried again instead of being given up.
AfterSend_RetryOnError(t) ==
    IF t.resp.err # "nil" THEN "fetch"
    ELSE IF ~t.resp.html THEN "exit"
    ELSE IF ~t.resp.parsed THEN "exit"
    ELSE IF Len(extractLinks(t.u)) = 0 THEN "exit"
    ELSE "spawn"

\* (mutant) the Content-Type is not looked at: every body is parsed and its
\* links followed.
AfterSend_NoContentTypeCheck(t) ==
    IF t.resp.err # "nil" THEN "exit"
    ELSE IF t.resp.html /\ ~t.resp.parsed THEN "exit"
    ELSE IF Len(extractLinks(t.u)) = 0 THEN "exit"
    ELSE "spawn"

\* (mutant) the return after a failed html.Parse leaves without the
\* deferred wg.Done().
AfterSend_ParseFailureSkipsDone(t) ==
    IF t.resp.err # "nil" THEN "exit"
    ELSE IF ~t.resp.html THEN "exit"
    ELSE IF ~t.resp.parsed THEN "done"
    ELSE IF Len(extractLinks(t.u)) = 0 THEN "exit"
    ELSE "spawn"

\* Where crawlURL goes after its send (lines 164-187): it returns on an
\* error, on a response that is not HTML and on a parse failure; otherwise
\* it ranges over the links.
AfterSend(t) ==
    IF t.resp.err # "nil" THEN "exit"
    ELSE IF ~t.resp.html THEN "exit"
    ELSE IF ~t.resp.parsed THEN "exit"
    ELSE IF Len(extractLinks(t.u)) = 0 THEN "exit"
    ELSE "spawn"

\* (mutant) a failed request returns without sending its result.
Send_NothingOnError(t) ==
    /\ t.pc = "send"
    /\ ~panicked
    /\ IF closed
       THEN /\ panicked' = TRUE
            /\ UNCHANGED <<results, sentLog, tasks>>
       ELSE /\ Len(results) < ResultsCap
            /\ results' = IF t.resp.err # "nil" THEN results
                          ELSE Append(results,
                                 LinkStatus(String(t.u), t.resp.status, t.resp.err))
            /\ sentLog' = IF t.resp.err # "nil" THEN sentLog
                          ELSE Append(sentLog,
                                 LinkStatus(String(t.u), t.resp.status, t.resp.err))
            /\ tasks' = Replace(t, [t EXCEPT !.pc = AfterSend(t)])
            /\ UNCHANGED panicked
    /\ UNCHANGED <<brokenLinks, logLines,
                   startURL, maxNum, site, visited, visitedCount, wg, closed,
                   closerPc, mainPc, allResults, cancelled>>

\* (mutant) the result is sent without the error of the fetch.
Send_WithoutError(t) ==
    /\ t.pc = "send"
    /\ ~panicked
    /\ IF closed
       THEN /\ panicked' = TRUE
            /\ UNCHANGED <<results, sentLog, tasks>>
       ELSE /\ Len(results) < ResultsCap
            /\ results' = Append(results,
                  LinkStatus(String(t.u), t.resp.status, "nil"))
            /\ sentLog' = Append(sentLog,
                  LinkStatus(String(t.u), t.resp.status, "nil"))
            /\ tasks' = Replace(t, [t EXCEPT !.pc = AfterSend(t)])
            /\ UNCHANGED panicked
    /\ UNCHANGED <<brokenLinks, logLines,
                   startURL, maxNum, site, visited, visitedCount, wg, closed,
                   closerPc, mainPc, allResults, cancelled>>

\* Line 162 (and 144): c.results <- LinkStatus{...}. The send blocks while
\* the buffer is full and panics on a closed channel.
Send(t) ==
    /\ t.pc = "send"
    /\ ~panicked
    /\ IF closed
       THEN /\ panicked' = TRUE
            /\ UNCHANGED <<results, sentLog, tasks>>
       ELSE /\ Len(results) < ResultsCap
            /\ results' = Append(results,
                  LinkStatus(String(t.u), t.resp.status, t.resp.err))
            /\ sentLog' = Append(sentLog,
                  LinkStatus(String(t.u), t.resp.status, t.resp.err))
            /\ tasks' = Replace(t, [t EXCEPT !.pc = AfterSend(t)])
            /\ UNCHANGED panicked
    /\ UNCHANGED <<brokenLinks, logLines,
                   startURL, maxNum, site, visited, visitedCount, wg, closed,
                   closerPc, mainPc, allResults, cancelled>>

\* (mutant) the child is started without wg.Add(1) in the parent.
Spawn_NoAdd(t) ==
    /\ t.pc = "spawn"
    /\ ~panicked
    /\ tasks' = Replace(t, [t EXCEPT !.i = t.i + 1,
                                     !.pc = IF t.i = Len(extractLinks(t.u))
                                            THEN "exit" ELSE "spawn"])
                (+) SetToBag({Task(extractLinks(t.u)[t.i], String(t.u))})
    /\ UNCHANGED <<brokenLinks, logLines, sentLog, startURL, maxNum, site, visited,
                   visitedCount, wg, results, closed, closerPc, mainPc, allResults,
                   cancelled, panicked>>

\* (mutant) the link loop starts a task only for a link that passes
\* shouldCrawl; any other link is skipped without wg.Add(1).
Spawn_OnlyInScope(t) ==
    /\ t.pc = "spawn"
    /\ ~panicked
    /\ wg' = IF shouldCrawl(extractLinks(t.u)[t.i]) THEN wg + 1 ELSE wg
    /\ tasks' = Replace(t, [t EXCEPT !.i = t.i + 1,
                                     !.pc = IF t.i = Len(extractLinks(t.u))
                                            THEN "exit" ELSE "spawn"])
                (+) (IF shouldCrawl(extractLinks(t.u)[t.i])
                     THEN SetToBag({Task(extractLinks(t.u)[t.i], String(t.u))})
                     ELSE EmptyBag)
    /\ UNCHANGED <<brokenLinks, logLines, sentLog, startURL, maxNum, site, visited,
                   visitedCount, results, closed, closerPc, mainPc, allResults,
                   cancelled, panicked>>

\* Lines 187-190, one iteration: c.wg.Add(1), then go c.crawlURL(ctx, link, u).
Spawn(t) ==
    /\ t.pc = "spawn"
    /\ ~panicked
    /\ wg' = wg + 1
    /\ tasks' = Replace(t, [t EXCEPT !.i = t.i + 1,
                                     !.pc = IF t.i = Len(extractLinks(t.u))
                                            THEN "exit" ELSE "spawn"])
                (+) SetToBag({Task(extractLinks(t.u)[t.i], String(t.u))})
    /\ UNCHANGED <<brokenLinks, logLines, sentLog,
                   startURL, maxNum, site, visited, visitedCount, results, closed,
                   closerPc, mainPc, allResults, cancelled, panicked>>

\* (mutant) crawlURL returns without c.wg.Done().
Done_Forgotten(t) ==
    /\ t.pc = "exit"
    /\ ~panicked
    /\ tasks' = Replace(t, [t EXCEPT !.pc = "done"])
    /\ UNCHANGED <<brokenLinks, logLines, sentLog,
                   startURL, maxNum, site, visited, visitedCount, wg, results, closed,
                   closerPc, mainPc, allResults, cancelled, panicked>>

\* The return of crawlURL after its send (lines 166, 173, 178, 191) with the
\* deferred c.wg.Done().
Done(t) ==
    /\ t.pc = "exit"
    /\ ~panicked
    /\ Return(t, [t EXCEPT !.pc = "done"])
    /\ UNCHANGED <<brokenLinks, logLines, sentLog,
                   startURL, maxNum, site, visited, visitedCount, results, closed,
                   closerPc, mainPc, allResults, cancelled>>

crawlURL(t) == Claim(t) \/ Fetch(t) \/ Send(t) \/ Spawn(t) \/ Done(t)

----------------------------------------------------------------------------

Next ==
    \/ Run
    \/ \E t \in BagToSet(tasks) : Claim(t)
    \/ \E t \in BagToSet(tasks) : Fetch(t)
    \/ \E t \in BagToSet(tasks) : Send(t)
    \/ \E t \in BagToSet(tasks) : Spawn(t)
    \/ \E t \in BagToSet(tasks) : Done(t)
    \/ WgWait
    \/ Close
    \/ Receive
    \/ WaitReturn
    \/ Report
    \/ Cancel

Spec == Init /\ [][Next]_vars

\* The scheduler runs every runnable goroutine and the caller stays in
\* Wait: the steps of the program are weakly fair. Cancellation is the
\* caller's choice and is not.
Fairness ==
    /\ WF_vars(Run)
    /\ WF_vars(\E t \in BagToSet(tasks) : crawlURL(t))
    /\ WF_vars(WgWait)
    /\ WF_vars(Close)
    /\ WF_vars(Receive)
    /\ WF_vars(WaitReturn)
    /\ WF_vars(Report)

FairSpec == Init /\ [][Next]_vars /\ Fairness

----------------------------------------------------------------------------
(* Quantities the properties are stated in. *)

RECURSIVE CountTasks(_)
\* The number of goroutines, with multiplicity, among the records S.
CountTasks(S) ==
    IF S = {} THEN 0
    ELSE LET t == CHOOSE x \in S : TRUE
         IN  CopiesIn(t, tasks) + CountTasks(S \ {t})

\* The calls markVisited(s) that returned true so far.
TrueClaims(s) ==
    CountTasks({t \in BagToSet(tasks) : String(t.u) = s /\ t.st = "claimed"})

\* The calls markVisited(s) that returned false so far.
FalseClaims(s) ==
    CountTasks({t \in BagToSet(tasks) : String(t.u) = s /\ t.st = "rejected"})

\* Every CrawlResult sent on the channel so far, in the order of sending.
Sent == allResults \o results

\* Wait has returned.
Terminated == mainPc \in {"returned", "reported"}

----------------------------------------------------------------------------
(* C1 *)

\* C1: under every interleaving of the crawlURL tasks, at most one call of
\* markVisited per URL string returns true over the whole run.
C1_ClaimedAtMostOnce ==
    \A s \in URLStrings : TrueClaims(s) <= 1

\* One URL string was offered by two tasks of a run without a claim limit:
\* one call returned true, the other false.
C1_Witness ==
    /\ maxNum = 0
    /\ \E s \in URLStrings : TrueClaims(s) = 1 /\ FalseClaims(s) >= 1

----------------------------------------------------------------------------
(* C2 *)

\* C2: under fair scheduling and a collector that keeps draining, every run
\* reaches the state where the WaitGroup counter is zero, the result channel
\* is closed and Wait has returned.
C2_Terminates ==
    <>(Terminated /\ wg = 0 /\ closed /\ ~panicked)

\* Wait has returned from the crawl of a cyclic site in which every page was
\* claimed.
C2_Witness ==
    /\ Terminated
    /\ site \in {CycleSite, TriangleSite}
    /\ visited \in {{String(Ux), String(Uy), String(Uz)},
                    {String(Ux), String(Uy), String(UY)}}

----------------------------------------------------------------------------
(* C3 *)

\* A task that can still send a result: it has not yet passed line 162.
CanStillEmit(t) == t.pc \in {"start", "fetch", "send"}

\* C3: the result channel is closed once, only after the WaitGroup counter
\* has returned to zero, when no task can still send a result; nothing is
\* sent at or after the close and the closed channel is never closed again.
C3_ClosedOnceAfterZero ==
    /\ [](closed => /\ wg = 0
                    /\ closerPc = "done"
                    /\ \A t \in BagToSet(tasks) : ~CanStillEmit(t))
    /\ [](~panicked)
    /\ [](Terminated => closed)
    /\ [][closed => closed' /\ Sent' = Sent]_vars
    /\ [][closed' /\ ~closed => wg = 0 /\ Running = {}]_vars

\* The channel has been closed after at least two results were sent and Wait
\* has returned them.
C3_Witness ==
    /\ closed
    /\ Terminated
    /\ Len(allResults) >= 2

----------------------------------------------------------------------------
(* C4 *)

\* The number of results for URL string s in the sequence q.
ResultsFor(q, s) == Cardinality({k \in 1..Len(q) : q[k].URL = s})

ResultURLs(q) == {q[k].URL : k \in 1..Len(q)}

\* C4: a URL is sent at most one result, and only after its claim succeeded;
\* when the run ends the result list holds every claimed URL exactly once,
\* failed fetches included, and nothing else.
C4_OneResultPerClaim ==
    /\ \A s \in URLStrings : ResultsFor(Sent, s) <= 1
    /\ \A s \in ResultURLs(Sent) : s \in URLStrings /\ TrueClaims(s) >= 1
    /\ Terminated =>
          /\ \A s \in URLStrings :
                ResultsFor(allResults, s) = (IF TrueClaims(s) >= 1 THEN 1 ELSE 0)
          /\ ResultURLs(allResults) = visited

\* The run has ended with a result of a failed fetch and a result of a
\* successful one, while a rejected candidate has none of its own.
C4_Witness ==
    /\ Terminated
    /\ \E j, k \in 1..Len(allResults) :
          allResults[j].Err # "nil" /\ allResults[k].Err = "nil"
    /\ \E t \in BagToSet(tasks) : t.st = "filtered"
    /\ \E t \in BagToSet(tasks) : t.st = "rejected"

----------------------------------------------------------------------------
(* C5 *)

\* Case folding of a host, character by character.
Fold(h) == [k \in 1..Len(h) |-> FoldChar(h[k])]

\* In scope as the specification defines it: the seed's scheme exactly and
\* the seed's host ignoring letter case.
InScope(u) == u.scheme = startURL.scheme /\ Fold(u.host) = Fold(startURL.host)

\* The pages fetched without error as HTML that parsed: the pages whose
\* links were extracted.
Expanded ==
    {String(t.u) : t \in {x \in BagToSet(tasks) :
        /\ x.st = "claimed"
        /\ x.pc \in {"spawn", "exit", "done"}
        /\ x.resp.err = "nil" /\ x.resp.html /\ x.resp.parsed}}

RECURSIVE ReachFrom(_)
\* The least set of URL strings that holds R and every in-scope link of
\* every expanded page it holds.
ReachFrom(R) ==
    LET more == {String(l) : l \in {x \in URLs :
                    /\ InScope(x)
                    /\ \E s \in R \cap Expanded :
                          \E k \in 1..Len(site[s]) : site[s][k] = x}}
    IN  IF more \subseteq R THEN R ELSE ReachFrom(R \cup more)

Reachable == ReachFrom({String(startURL)})

\* The response the claimed task of URL string s got.
ResponsesOf(s) ==
    {t.resp : t \in {x \in BagToSet(tasks) :
        String(x.u) = s /\ x.st = "claimed" /\ x.pc \in {"spawn", "exit", "done"}}}

\* C5: without a claim limit, when the run ends the result URLs are exactly
\* the in-scope URLs reachable from the seed through the links of the pages
\* fetched as HTML, and each result carries the status and the error of the
\* fetch of its URL.
C5_ResultsAreReachableSet ==
    (Terminated /\ maxNum = 0) =>
        /\ ResultURLs(allResults) = Reachable
        /\ \A k \in 1..Len(allResults) :
              \E r \in ResponsesOf(allResults[k].URL) :
                 allResults[k].Status = r.status /\ allResults[k].Err = r.err

\* An unlimited run has ended with three pages reached, among them one that
\* failed and one answered with an HTTP error status whose links were
\* followed.
C5_Witness ==
    /\ Terminated
    /\ maxNum = 0
    /\ Cardinality(Reachable) >= 3
    /\ \E k \in 1..Len(allResults) : allResults[k].Err # "nil"
    /\ \E t \in BagToSet(tasks) :
          /\ String(t.u) \in Expanded
          /\ t.st = "claimed"
          /\ t.resp.status = 404
          /\ Len(site[String(t.u)]) > 0

----------------------------------------------------------------------------
(* C6 *)

\* The calls of markVisited that returned true so far, over all URLs.
TotalClaims == CountTasks({t \in BagToSet(tasks) : t.st = "claimed"})

\* C6: a call markVisited(s) returns true and records s exactly when no
\* earlier call for s returned true and, under a positive limit, fewer than
\* maxNum calls have returned true; otherwise it returns false and records
\* nothing.
C6_ClaimIffNewAndUnderLimit ==
    [][\A t \in BagToSet(tasks) :
          (Claim(t) /\ InScope(t.u)) =>
             LET s == String(t.u)
                 fresh == TrueClaims(s) = 0
                 under == ~(maxNum > 0 /\ TotalClaims >= maxNum)
             IN  IF fresh /\ under
                 THEN /\ TrueClaims(s)' = 1
                      /\ FalseClaims(s)' = FalseClaims(s)
                      /\ s \notin visited
                      /\ visited' = visited \cup {s}
                 ELSE /\ TrueClaims(s)' = TrueClaims(s)
                      /\ FalseClaims(s)' = FalseClaims(s) + 1
                      /\ visited' = visited]_vars

\* Under a limit of one, a call for a URL never seen has returned false and
\* a call for the seed has returned true.
C6_Witness ==
    /\ maxNum = 1
    /\ TrueClaims(String(startURL)) = 1
    /\ \E t \in BagToSet(tasks) : t.st = "rejected" /\ String(t.u) \notin visited

----------------------------------------------------------------------------
(* C7 *)

\* C7: under a positive limit no more than maxNum calls of markVisited
\* return true, and once maxNum have, every later call returns false and
\* records nothing, for a URL never seen as for one seen.
C7_LimitHolds ==
    /\ [](maxNum > 0 => /\ TotalClaims <= maxNum
                        /\ visitedCount <= maxNum
                        /\ Cardinality(visited) <= maxNum)
    /\ [][(maxNum > 0 /\ TotalClaims = maxNum) =>
             /\ TotalClaims' = TotalClaims
             /\ visited' = visited
             /\ \A t \in BagToSet(tasks) :
                   (Claim(t) /\ InScope(t.u)) =>
                      FalseClaims(String(t.u))' = FalseClaims(String(t.u)) + 1]_vars

\* Under a limit of two, both claims are taken; a candidate never seen was
\* turned down, and so was a seen candidate that the second claimed page
\* linked to.
C7_Witness ==
    /\ maxNum = 2
    /\ TotalClaims = 2
    /\ \E t \in BagToSet(tasks) : t.st = "rejected" /\ String(t.u) \notin visited
    /\ \E t \in BagToSet(tasks) :
          /\ t.st = "rejected"
          /\ String(t.u) \in visited
          /\ t.ref \in visited \ {String(startURL)}

----------------------------------------------------------------------------
(* C8 *)

\* The distinct in-scope URL strings, other than the seed's, that the seed
\* page links to.
SeedLinks ==
    {String(l) : l \in {x \in URLs :
        /\ InScope(x)
        /\ \E k \in 1..Len(site[String(startURL)]) : site[String(startURL)][k] = x}}
    \ {String(startURL)}

\* C8: under a limit N > 0 a run sends at most N results, the seed's claim
\* being the first; and when the seed was fetched as HTML that parsed and
\* links to at least N-1 distinct in-scope pages other than itself, the run
\* ends with exactly N results.
C8_ExactlyNResults ==
    maxNum > 0 =>
        /\ Len(Sent) <= maxNum
        /\ visited # {} => String(startURL) \in visited
        /\ (/\ Terminated
            /\ String(startURL) \in Expanded
            /\ Cardinality(SeedLinks) >= maxNum - 1) => Len(allResults) = maxNum

\* The seed with five distinct in-scope links was crawled under a limit of
\* two and the run has ended with two results.
C8_Witness ==
    /\ Terminated
    /\ maxNum = 2
    /\ Cardinality(SeedLinks) = 5
    /\ String(startURL) \in Expanded
    /\ Len(allResults) = 2

----------------------------------------------------------------------------
(* C9 *)

\* C9: a call of markVisited for a URL already claimed returns false and
\* leaves the visited set and the count as they are, whichever task makes
\* it and however often.
C9_ReclaimIsNoOp ==
    [][\A t \in BagToSet(tasks) :
          (Claim(t) /\ InScope(t.u) /\ TrueClaims(String(t.u)) >= 1) =>
             /\ visited' = visited
             /\ visitedCount' = visitedCount
             /\ TrueClaims(String(t.u))' = TrueClaims(String(t.u))
             /\ FalseClaims(String(t.u))' = FalseClaims(String(t.u)) + 1]_vars

\* In an unlimited run one claimed URL has been offered again twice, by
\* tasks of two different pages.
C9_Witness ==
    /\ maxNum = 0
    /\ \E t1, t2 \in BagToSet(tasks) :
          /\ t1.st = "rejected" /\ t2.st = "rejected"
          /\ t1.u = t2.u
          /\ t1.ref # t2.ref
          /\ TrueClaims(String(t1.u)) = 1
          /\ visitedCount = Cardinality(visited)

----------------------------------------------------------------------------
(* C10 *)

InScopeStrings == {String(u) : u \in {x \in URLs : InScope(x)}}

\* C10: a candidate is turned away before any call of markVisited and
\* without a result unless its host equals the seed's ignoring letter case
\* and its scheme equals the seed's; with the seed https://a.com/x the
\* candidate http://a.com/y is turned away and https://A.COM/y is not.
C10_ScopeFilter ==
    /\ \A t \in BagToSet(tasks) :
          /\ t.st \in {"claimed", "rejected"} => InScope(t.u)
          /\ t.st = "filtered" => ~InScope(t.u)
          /\ (String(startURL) = "https://a.com/x" /\ String(t.u) = "http://a.com/y")
                => t.st \in {"new", "filtered"}
          /\ (String(startURL) = "https://a.com/x" /\ String(t.u) = "https://A.COM/y")
                => t.st \in {"new", "claimed", "rejected"}
    /\ visited \subseteq InScopeStrings
    /\ ResultURLs(Sent) \subseteq InScopeStrings

\* With the seed https://a.com/x, a task for http://a.com/y has returned at
\* the filter and a task for https://A.COM/y has claimed its URL.
C10_Witness ==
    /\ String(startURL) = "https://a.com/x"
    /\ \E t \in BagToSet(tasks) :
          String(t.u) = "http://a.com/y" /\ t.st = "filtered" /\ t.pc = "done"
    /\ \E t \in BagToSet(tasks) :
          String(t.u) = "https://A.COM/y" /\ t.st = "claimed"
    /\ "https://A.COM/y" \in visited

----------------------------------------------------------------------------
(* C11: a failed fetch is one broken result and nothing more              *)

\* The task has performed its fetch (client.Do has returned).
Fetched(t) == t.st = "claimed" /\ t.pc \in {"send", "spawn", "exit", "done"}

\* The task's fetch returned an error.
Failed(t) == Fetched(t) /\ t.resp.err # "nil"

\* Number of fetches performed for the URL string s.
FetchesOf(s) == CountTasks({t \in BagToSet(tasks) : String(t.u) = s /\ Fetched(t)})

\* The tasks started from the links of the page s.
ChildrenOf(s) == {t \in BagToSet(tasks) : t.ref = s}

----------------------------------------------------------------------------
(* C12: cancellation of the context                                       *)

\* The result of a fetch made under a cancelled context.
CancelledResponse == Response(0, "canceled", FALSE, FALSE)

\* C12 as stated: in a finished run that a cancellation has hit (some
\* result carries the cancellation error), the result of every claimed URL
\* carries the cancellation error and is broken.
C12_EveryResultCarriesCancellation ==
    (Terminated /\ cancelled /\ \E k \in 1..Len(allResults) : allResults[k].Err = "canceled")
        => \A k \in 1..Len(allResults) :
              allResults[k].Err = "canceled" /\ isBroken(allResults[k])

\* C12, amended: a fetch made once the context is cancelled fails with the
\* cancellation error and no response; such a result is sent once with
\* status 0, is classified broken and starts no task; a result carries the
\* cancellation error only if the context was cancelled; a finished
\* cancelled run holds exactly one result per claimed URL, whether claimed
\* before or after the cancellation; and every cancelled run ends with the
\* channel closed and Wait returned.
C12_CancelledFetchesAreBroken ==
    /\ [][\A t \in BagToSet(tasks) :
             (cancelled /\ Fetch(t)) =>
                tasks' = Replace(t, [t EXCEPT !.pc = "send",
                                              !.resp = CancelledResponse])]_vars
    /\ [](\A t \in BagToSet(tasks) :
             (Fetched(t) /\ t.resp.err = "canceled") =>
                /\ cancelled
                /\ t.resp = CancelledResponse
                /\ t.pc # "spawn"
                /\ ChildrenOf(String(t.u)) = {}
                /\ ResultsFor(Sent, String(t.u)) = (IF t.pc = "send" THEN 0 ELSE 1))
    /\ [](\A k \in 1..Len(Sent) :
             Sent[k].Err = "canceled" =>
                cancelled /\ Sent[k].Status = 0 /\ isBroken(Sent[k]))
    /\ []((Terminated /\ cancelled) =>
             /\ closed /\ results = <<>> /\ ~panicked
             /\ ResultURLs(allResults) = visited
             /\ \A s \in URLStrings :
                   ResultsFor(allResults, s) = (IF TrueClaims(s) >= 1 THEN 1 ELSE 0))
    /\ (cancelled ~> (Terminated /\ closed /\ ~panicked))

\* A finished cancelled run in which the seed was fetched before the
\* cancellation and a page it links to after it.
C12_Witness ==
    /\ Terminated
    /\ cancelled
    /\ Len(allResults) >= 2
    /\ allResults[1].URL = String(startURL) /\ allResults[1].Err = "nil"
    /\ \E k \in 2..Len(allResults) : allResults[k].Err = "canceled"

----------------------------------------------------------------------------
(* C13: the classification of main, over the results a crawl can return   *)

\* Longest list of results the classification is run on.
MaxListed == 2

\* What a fetch can put in a LinkStatus: a response of any status without
\* error, no response (status 0) with the error of the transport or of the
\* context, or the last redirect response with the error of the redirect
\* policy.
Outcomes ==
    ({200, 302, 399, 400, 404, 500, 599, 600} \X {"nil"})
        \cup {<<0, "transport">>, <<0, "canceled">>, <<302, "redirect">>}

\* The URLs of the results, the seed first.
ListedURLs == <<Ux, Uy, UY, Uz, Uv>>

\* The lists of results Wait can return, one result per claimed URL.
ResultLists ==
    UNION {{[k \in 1..n |-> LinkStatus(String(ListedURLs[k]), o[k][1], o[k][2])] :
              o \in [1..n -> Outcomes]} : n \in 0..MaxListed}

\* The state in which Wait has just returned a list of results: every task
\* has ended, the channel is closed and drained.
ClassifyInit ==
    /\ startURL = Ux
    /\ maxNum = 0
    /\ site = FanSite
    /\ allResults \in ResultLists
    /\ sentLog = allResults
    /\ visited = ResultURLs(allResults)
    /\ visitedCount = Len(allResults)
    /\ wg = 0
    /\ results = <<>>
    /\ closed = TRUE
    /\ tasks = EmptyBag
    /\ closerPc = "done"
    /\ mainPc = "returned"
    /\ cancelled = FALSE
    /\ panicked = FALSE
    /\ brokenLinks = <<>>
    /\ logLines = <<>>

ClassifyNext == Report

ClassifySpec == ClassifyInit /\ [][ClassifyNext]_vars

\* C13: once main has classified the results, a result is among the broken
\* links, and is logged as broken, exactly when its error is present or its
\* status lies in 400..599; every other result is logged OK; the broken
\* links keep the order of the results.
C13_BrokenIffErrorOr4xx5xx ==
    mainPc = "reported" =>
        /\ Len(logLines) = Len(allResults)
        /\ \A k \in 1..Len(allResults) :
              LET r == allResults[k]
                  bad == r.Err # "nil" \/ r.Status \in 400..599
              IN  /\ (\E j \in 1..Len(brokenLinks) : brokenLinks[j] = r) <=> bad
                  /\ logLines[k] = (IF bad THEN "BROKEN" ELSE "OK")
                  /\ (r.Err = "nil" /\ r.Status = 404) => logLines[k] = "BROKEN"
                  /\ (r.Err = "nil" /\ r.Status = 200) => logLines[k] = "OK"
                  /\ (r.Err # "nil" /\ r.Status = 0) => logLines[k] = "BROKEN"
        /\ Len(brokenLinks) =
              Cardinality({k \in 1..Len(allResults) : logLines[k] = "BROKEN"})
        /\ \A i, j \in 1..Len(brokenLinks) :
              i < j => \E a, b \in 1..Len(allResults) :
                          a < b /\ allResults[a] = brokenLinks[i]
                                /\ allResults[b] = brokenLinks[j]

\* A classified list with a page of status 400 and a page of status 399.
C13_Witness ==
    /\ mainPc = "reported"
    /\ Len(allResults) = 2
    /\ allResults[1].Err = "nil" /\ allResults[1].Status = 400
    /\ allResults[2].Err = "nil" /\ allResults[2].Status = 399
    /\ Len(brokenLinks) = 1
    /\ logLines = <<"BROKEN", "OK">>

----------------------------------------------------------------------------
(* C14: a response that is not HTML                                       *)

\* The task fetched its URL without error and the Content-Type of the
\* response does not contain text/html.
NotHTML(t) == Fetched(t) /\ t.resp.err = "nil" /\ ~t.resp.html

\* C14: a task whose response is not HTML sends its own result, with the
\* status of the response and no error, right after the fetch, and never
\* enters the link loop: no task is ever started with that page as referer,
\* so no claim is made on its behalf.
C14_NonHTMLIsNotExpanded ==
    \A t \in BagToSet(tasks) : NotHTML(t) =>
        /\ t.pc # "spawn"
        /\ t.i = 1
        /\ ChildrenOf(String(t.u)) = {}
        /\ String(t.u) \notin Expanded
        /\ ResultsFor(Sent, String(t.u)) = (IF t.pc = "send" THEN 0 ELSE 1)
        /\ \A k \in 1..Len(Sent) : Sent[k].URL = String(t.u) =>
              Sent[k].Status = t.resp.status /\ Sent[k].Err = "nil"

\* A finished run in which the seed, whose page has links, answered 200
\* with a Content-Type that is not HTML: its result is the only one.
C14_Witness ==
    /\ Terminated
    /\ Len(extractLinks(startURL)) > 0
    /\ \E t \in BagToSet(tasks) :
          /\ NotHTML(t) /\ t.pc = "done" /\ t.u = startURL
          /\ t.resp.status = 200
    /\ allResults = <<LinkStatus(String(startURL), 200, "nil")>>
    /\ visited = {String(startURL)}

----------------------------------------------------------------------------
(* C15: a page whose HTML cannot be parsed                                *)

\* The task fetched an HTML page without error and html.Parse failed on it.
ParseFailed(t) == Fetched(t) /\ t.resp.err = "nil" /\ t.resp.html /\ ~t.resp.parsed

\* C15: when html.Parse fails, the page's result is the one sent before the
\* parse, with the status of the response and no error; only the link loop
\* is skipped (no task has the page as referer); and the task deregisters:
\* the counter always equals the number of tasks that have not ended, and
\* when Wait has returned the task has ended and the counter is zero.
C15_ParseFailureKeepsResult ==
    /\ wg = CountTasks(Running)
    /\ \A t \in BagToSet(tasks) : ParseFailed(t) =>
          /\ t.pc \in {"send", "exit", "done"}
          /\ ChildrenOf(String(t.u)) = {}
          /\ ResultsFor(Sent, String(t.u)) = (IF t.pc = "send" THEN 0 ELSE 1)
          /\ \A k \in 1..Len(Sent) : Sent[k].URL = String(t.u) =>
                Sent[k] = LinkStatus(String(t.u), t.resp.status, "nil")
          /\ Terminated => (t.pc = "done" /\ wg = 0)

\* A finished run in which the seed's page, which has links, was fetched
\* with status 200 and could not be parsed.
C15_Witness ==
    /\ Terminated
    /\ wg = 0
    /\ Len(extractLinks(startURL)) > 0
    /\ \E t \in BagToSet(tasks) :
          ParseFailed(t) /\ t.pc = "done" /\ t.u = startURL /\ t.resp.status = 200
    /\ allResults = <<LinkStatus(String(startURL), 200, "nil")>>
    /\ CountTasks(BagToSet(tasks)) = 1

----------------------------------------------------------------------------
(* C16: registration precedes deregistration                              *)

\* The tasks started from the page s that have not ended.
LiveChildren(s) == {t \in ChildrenOf(s) : t.pc # "done"}

\* C16: the counter never goes below zero (no panic) and is at least 1
\* whenever a task has not ended: every task that has not ended holds a
\* registration. The closer starts only with the root registered. A task
\* deregisters only after its link loop is over, with one task started per
\* link and each of those that has not ended still registered beside it.
C16_RegisteredBeforeDeregistered ==
    /\ [](wg >= 0 /\ ~panicked)
    /\ [](Running # {} => wg >= 1)
    /\ [](wg >= CountTasks(Running))
    /\ [](closerPc # "idle" => \E t \in BagToSet(tasks) : t.u = startURL /\ t.ref = "")
    /\ [][(closerPc = "idle" /\ closerPc' # "idle") => wg' >= 1]_vars
    /\ [][\A t \in BagToSet(tasks) :
             (Done(t) /\ String(t.u) \in Expanded) =>
                /\ t.i = Len(extractLinks(t.u)) + 1
                /\ CountTasks(ChildrenOf(String(t.u))) = Len(extractLinks(t.u))
                /\ wg >= 1 + CountTasks(LiveChildren(String(t.u)))
                /\ wg' >= CountTasks(LiveChildren(String(t.u)))]_vars

\* The seed's task has ended while two of the tasks it started have not:
\* the counter still holds their registrations and the closer still waits.
C16_Witness ==
    /\ \E t \in BagToSet(tasks) : t.u = startURL /\ t.ref = "" /\ t.pc = "done"
    /\ CountTasks(LiveChildren(String(startURL))) >= 2
    /\ wg = CountTasks(LiveChildren(String(startURL)))
    /\ closerPc = "wg.Wait"
    /\ ~closed

----------------------------------------------------------------------------
(* C17: producers blocked on a full channel                               *)

\* The task of the URL string s is blocked in its send: the buffer is full.
Blocked(s) ==
    \E t \in BagToSet(tasks) :
        String(t.u) = s /\ t.pc = "send" /\ Len(results) >= ResultsCap

\* C17: while Wait keeps receiving, no task stays blocked in its send on a
\* full channel: a run in which a task is blocked reaches the state where
\* every task has ended, the channel is closed and drained, and Wait has
\* returned every result that was sent, one per claimed URL and more than
\* the buffer holds; Wait never returns before that.
C17_BlockedProducersProgress ==
    /\ [](Terminated => (closed /\ results = <<>> /\ Running = {}))
    /\ (\E s \in URLStrings : Blocked(s)) ~>
          (/\ Terminated /\ closed /\ results = <<>> /\ ~panicked
           /\ Running = {}
           /\ allResults = sentLog
           /\ \A s \in URLStrings :
                 ResultsFor(allResults, s) = (IF s \in visited THEN 1 ELSE 0)
           /\ Len(allResults) > ResultsCap)

\* The buffer is full of results not yet received while a task is ready
\* to send one more.
C17_Witness ==
    /\ Len(results) = ResultsCap
    /\ mainPc = "Wait"
    /\ \E s \in URLStrings : Blocked(s) /\ ResultsFor(sentLog, s) = 0

----------------------------------------------------------------------------
(* C18: how many tasks are launched                                       *)

\* Number of tasks launched so far (go statements executed).
Launched == CountTasks(BagToSet(tasks))

\* Number of links the link loops have gone through so far.
RECURSIVE LinksFollowedBy(_)
LinksFollowedBy(S) ==
    IF S = {} THEN 0
    ELSE LET t == CHOOSE x \in S : TRUE
         IN  CopiesIn(t, tasks) * (t.i - 1) + LinksFollowedBy(S \ {t})

LinksFollowed == LinksFollowedBy(BagToSet(tasks))

\* C18 as stated: a task is launched only for an in-scope URL, and a
\* finished run has launched as many tasks as it has claimed URLs.
C18_OneTaskPerClaimedURL ==
    /\ \A t \in BagToSet(tasks) : InScope(t.u)
    /\ Terminated => Launched = Cardinality(visited)

\* C18, amended: one task is launched for the seed and one for every link
\* the link loops go through, whatever the link, each registered with the
\* counter; the scope filter and the claim are made inside the task, so the
\* tasks launched are at least as many as the claimed URLs, and exactly one
\* task per claimed URL goes on to fetch.
C18_OneTaskPerExtractedLink ==
    /\ Launched = (IF mainPc = "Run" THEN 0 ELSE 1) + LinksFollowed
    /\ wg = CountTasks(Running)
    /\ TotalClaims = Cardinality(visited)
    /\ TotalClaims <= Launched
    /\ \A s \in URLStrings :
          /\ TrueClaims(s) = (IF s \in visited THEN 1 ELSE 0)
          /\ FetchesOf(s) <= TrueClaims(s)
    /\ \A t \in BagToSet(tasks) :
          t.ref # "" => (t.ref \in Expanded /\ \E k \in 1..Len(site[t.ref]) : site[t.ref][k] = t.u)
    /\ Terminated =>
          /\ \A s \in URLStrings : FetchesOf(s) = TrueClaims(s)
          /\ \A s \in Expanded :
                CountTasks(ChildrenOf(s)) = Len(site[s])

\* A finished run that launched more tasks than it claimed URLs: one for a
\* link out of scope and one for a link already claimed.
C18_Witness ==
    /\ Terminated
    /\ Launched > Cardinality(visited)
    /\ \E t \in BagToSet(tasks) : t.st = "filtered" /\ ~InScope(t.u)
    /\ \E t \in BagToSet(tasks) : t.st = "rejected" /\ String(t.u) \in visited

----------------------------------------------------------------------------
(* C19: a page's result precedes the results of the pages it links to     *)

\* The page from which the URL string s was claimed: the referer of the
\* task that claimed it ("" for the seed).
ClaimedFrom(s) ==
    LET t == CHOOSE x \in BagToSet(tasks) : String(x.u) = s /\ x.st = "claimed"
    IN  t.ref

\* In the list q the first result is the seed's and every other result
\* comes after the result of the page its URL was claimed from.
ParentFirst(q) ==
    /\ q # <<>> => q[1].URL = String(startURL)
    /\ \A k \in 1..Len(q) :
          /\ TrueClaims(q[k].URL) = 1
          /\ IF ClaimedFrom(q[k].URL) = ""
             THEN k = 1
             ELSE \E j \in 1..(k - 1) : q[j].URL = ClaimedFrom(q[k].URL)

\* C19: a task is in its link loop, and a task started from a page exists,
\* only when that page has been fetched without error and its result has
\* been sent; hence in the results sent, and in the list Wait builds and
\* returns, the seed's result is first and every other result comes after
\* the result of the page from which its URL was claimed.
C19_ParentResultFirst ==
    /\ \A t \in BagToSet(tasks) :
          (t.pc = "spawn" \/ t.i > 1) =>
             /\ Fetched(t) /\ t.resp.err = "nil"
             /\ ResultsFor(sentLog, String(t.u)) = 1
    /\ \A t \in BagToSet(tasks) :
          t.ref # "" =>
             /\ ResultsFor(sentLog, t.ref) = 1
             /\ t.ref \in Expanded
    /\ ParentFirst(sentLog)
    /\ ParentFirst(allResults)
    /\ Terminated => (allResults = sentLog /\ Len(allResults) = Cardinality(visited))

\* A finished run of the cycle whose list holds three results: the seed's,
\* then /y's, claimed from the seed, then that of https://A.COM/y, claimed
\* from /y.
C19_Witness ==
    /\ Terminated
    /\ Len(allResults) = 3
    /\ allResults[1].URL = String(Ux)
    /\ allResults[2].URL = String(Uy) /\ ClaimedFrom(String(Uy)) = String(Ux)
    /\ allResults[3].URL = String(UY) /\ ClaimedFrom(String(UY)) = String(Uy)

----------------------------------------------------------------------------
(* C20: what Wait returns                                                 *)

\* C20: the list Wait builds, followed by what is still in the channel, is
\* at every moment the sequence of the results sent, in the order of the
\* sends: nothing lost, duplicated or reordered. Wait returns only when the
\* channel is closed and empty, so the list it returns is exactly that
\* sequence, and the list does not change afterwards.
C20_WaitReturnsWhatWasSent ==
    /\ [](allResults \o results = sentLog)
    /\ [](Terminated => (closed /\ results = <<>> /\ allResults = sentLog))
    /\ [][(mainPc = "Wait" /\ mainPc' = "returned") =>
             (closed /\ results = <<>> /\ allResults' = sentLog)]_vars
    /\ [][Terminated => (allResults' = allResults /\ sentLog' = sentLog)]_vars

\* Wait has returned a list of three results, one of them broken by an
\* error, received from a channel that holds two.
C20_Witness ==
    /\ Terminated
    /\ closed
    /\ Len(sentLog) = 3
    /\ Len(sentLog) > ResultsCap
    /\ allResults = sentLog
    /\ \E k \in 1..Len(allResults) : allResults[k].Err # "nil"

----------------------------------------------------------------------------
(* C21: rejections are silent and not counted                             *)

\* The candidate of task t will be rejected: it is out of scope, or its key
\* is already claimed, or the claim limit is reached.
WillBeRejected(t) ==
    \/ ~InScope(t.u)
    \/ String(t.u) \in visited
    \/ (maxNum > 0 /\ visitedCount >= maxNum)

\* C21: the first step of a task whose candidate is out of scope, already
\* claimed or beyond the limit leaves the claim count, the visited set and
\* every result untouched and ends the task; so the count is always the
\* number of successful claims, a rejected task has fetched nothing and
\* started nothing, and no URL out of scope ever has a result.
C21_RejectionsNotCounted ==
    /\ [][\A t \in BagToSet(tasks) :
             (Claim(t) /\ WillBeRejected(t)) =>
                /\ visitedCount' = visitedCount
                /\ visited' = visited
                /\ sentLog' = sentLog
                /\ results' = results
                /\ allResults' = allResults
                /\ TotalClaims' = TotalClaims
                /\ Launched' = Launched
                /\ CountTasks(Running)' = CountTasks(Running) - 1]_vars
    /\ [](visitedCount = TotalClaims /\ visitedCount = Cardinality(visited))
    /\ [](Len(sentLog) <= visitedCount)
    /\ [](\A t \in BagToSet(tasks) :
             t.st \in {"filtered", "rejected"} =>
                /\ t.pc = "done" /\ t.resp = NoResponse /\ t.i = 1
                /\ (t.st = "filtered" <=> ~InScope(t.u))
                /\ (t.st = "filtered" => ResultsFor(sentLog, String(t.u)) = 0)
                /\ ResultsFor(sentLog, String(t.u)) <= TrueClaims(String(t.u)))
    /\ [](\A k \in 1..Len(sentLog) : sentLog[k].URL \in InScopeStrings)

\* A finished run of the cycle under a limit of 2 in which the three kinds
\* of rejection happened (a link out of scope, a link already claimed, a
\* new link beyond the limit) and the two claims were still both used.
C21_Witness ==
    /\ Terminated
    /\ maxNum = 2
    /\ visitedCount = 2
    /\ Len(allResults) = 2
    /\ \E t \in BagToSet(tasks) : t.st = "filtered"
    /\ \E t \in BagToSet(tasks) : t.st = "rejected" /\ String(t.u) \in visited
    /\ \E t \in BagToSet(tasks) : t.st = "rejected" /\ String(t.u) \notin visited

----------------------------------------------------------------------------
(* C22: candidates that differ in the letter case of the host             *)

\* The URLs u and v differ only in the letter case of the host, which
\* shouldCrawl's EqualFold treats as the same host.
DifferInHostCaseOnly(u, v) ==
    /\ u # v
    /\ u.scheme = v.scheme
    /\ u.path = v.path
    /\ Fold(u.host) = Fold(v.host)

\* C22 as stated: two in-scope candidates that differ only in the letter
\* case of the host are claimed, and fetched, at most once between them.
C22_HostCaseClaimedOnce ==
    \A u, v \in URLs :
        (InScope(u) /\ InScope(v) /\ DifferInHostCaseOnly(u, v)) =>
            /\ TrueClaims(String(u)) + TrueClaims(String(v)) <= 1
            /\ FetchesOf(String(u)) + FetchesOf(String(v)) <= 1
            /\ ~(String(u) \in visited /\ String(v) \in visited)

----------------------------------------------------------------------------
(* C23: well-formed results                                               *)

\* The task whose fetch produced the result r: the one that claimed r.URL
\* and has sent.
SenderOf(r) ==
    CHOOSE t \in BagToSet(tasks) :
        String(t.u) = r.URL /\ t.st = "claimed" /\ t.pc \in {"spawn", "exit", "done"}

\* C23: every result sent carries the outcome of the fetch of its URL: its
\* error is present exactly when that fetch failed, its status is the
\* status of the response, and 0 when no response was received (transport
\* failure or cancellation); no result has status 0 without an error. (A
\* response received always has a status of three digits, 100 or more.)
C23_ResultsWellFormed ==
    \A k \in 1..Len(sentLog) :
        LET r == sentLog[k]
        IN  /\ \E t \in BagToSet(tasks) :
                  String(t.u) = r.URL /\ t.st = "claimed"
                                      /\ t.pc \in {"spawn", "exit", "done"}
            /\ r.Status = SenderOf(r).resp.status
            /\ r.Err = SenderOf(r).resp.err
            /\ (r.Err # "nil") <=> Failed(SenderOf(r))
            /\ r.Err \in {"transport", "canceled"} => r.Status = 0
            /\ r.Status = 0 => r.Err # "nil"
            /\ r.Err = "nil" => r.Status \in 100..599

\* A finished run of the triangle whose list holds a result without error,
\* a result with an error and no response, and a result with an error and
\* the response at which the redirects stopped.
C23_Witness ==
    /\ Terminated
    /\ Len(allResults) = 3
    /\ \E k \in 1..3 : allResults[k].Err = "nil" /\ allResults[k].Status = 200
    /\ \E k \in 1..3 : allResults[k].Err = "transport" /\ allResults[k].Status = 0
    /\ \E k \in 1..3 : allResults[k].Err = "redirect" /\ allResults[k].Status = 302

----------------------------------------------------------------------------
(* C24: what depends on the interleaving                                  *)

\* A server whose answer depends on the URL only: what client.Do returns
\* for each URL string, whenever and however often it is asked.
ServerAnswers ==
    [s \in URLStrings |->
        CASE s = String(Uy) -> Response(404, "nil", TRUE, TRUE)
          [] s = String(UY) -> Response(0, "transport", FALSE, FALSE)
          [] s = String(Uv) -> Response(200, "nil", FALSE, FALSE)
          [] s = String(Uw) -> Response(302, "redirect", FALSE, FALSE)
          [] OTHER -> Response(200, "nil", TRUE, TRUE)]

\* (mutant) the answer to a URL depends on how many URLs were claimed
\* before it was fetched.
DetFetch_DependsOnTiming(t) ==
    /\ Fetch(t)
    /\ tasks' = Replace(t, [t EXCEPT !.pc = "send",
                   !.resp = IF visitedCount > 2
                            THEN Response(0, "transport", FALSE, FALSE)
                            ELSE ServerAnswers[String(t.u)]])

\* Lines 137-161 against that server, the context never cancelled.
DetFetch(t) ==
    /\ Fetch(t)
    /\ tasks' = Replace(t, [t EXCEPT !.pc = "send",
                                     !.resp = ServerAnswers[String(t.u)]])

\* The program run against that server.
DetNext ==
    \/ Run
    \/ \E t \in BagToSet(tasks) : Claim(t)
    \/ \E t \in BagToSet(tasks) : DetFetch(t)
    \/ \E t \in BagToSet(tasks) : Send(t)
    \/ \E t \in BagToSet(tasks) : Spawn(t)
    \/ \E t \in BagToSet(tasks) : Done(t)
    \/ WgWait
    \/ Close
    \/ Receive
    \/ WaitReturn
    \/ Report

DetSpec == Init /\ [][DetNext]_vars

\* The URL strings reachable from R through the in-scope links of the pages
\* the server answers with HTML that parses, computed from the site and the
\* server alone.
RECURSIVE AnswerReachFrom(_)
AnswerReachFrom(R) ==
    LET opens(s) == ServerAnswers[s].err = "nil" /\ ServerAnswers[s].html
                                                 /\ ServerAnswers[s].parsed
        more == {String(l) : l \in {x \in URLs :
                    /\ InScope(x)
                    /\ \E s \in R : opens(s) /\ \E k \in 1..Len(site[s]) : site[s][k] = x}}
    IN  IF more \subseteq R THEN R ELSE AnswerReachFrom(R \cup more)

\* The results a crawl of the site without limit must end with, as a set.
ExpectedResults ==
    {LinkStatus(s, ServerAnswers[s].status, ServerAnswers[s].err) :
        s \in AnswerReachFrom({String(startURL)})}

\* The results Wait returned, as a set.
ResultSet == {allResults[k] : k \in 1..Len(allResults)}

\* Two candidates wait for their claim while one claim is left.
ClaimRace(a, b) ==
    /\ a # b
    /\ a.pc = "start" /\ b.pc = "start"
    /\ InScope(a.u) /\ InScope(b.u)
    /\ String(a.u) # String(b.u)
    /\ String(a.u) \notin visited /\ String(b.u) \notin visited
    /\ maxNum > 0 /\ visitedCount = maxNum - 1

\* C24: against a server whose answers depend on the URL only, every run
\* without limit ends with the same set of results, the one computed from
\* the site and the server, each result once, whatever the interleaving.
\* Under a limit N > 0 the run ends with min(N, size of that set) results
\* taken from that set, but which ones is not determined: whenever two new
\* candidates wait for the last claim, either can take it, and the two
\* choices give different sets of claimed URLs.
C24_SetIndependentOfInterleaving ==
    /\ (Terminated /\ maxNum = 0) =>
          /\ ResultSet = ExpectedResults
          /\ Len(allResults) = Cardinality(ExpectedResults)
    /\ (Terminated /\ maxNum > 0) =>
          /\ ResultSet \subseteq ExpectedResults
          /\ Cardinality(ResultSet) = Len(allResults)
          /\ Len(allResults) =
                (IF maxNum < Cardinality(ExpectedResults)
                 THEN maxNum ELSE Cardinality(ExpectedResults))
    /\ \A a, b \in BagToSet(tasks) :
          ClaimRace(a, b) =>
             /\ ENABLED (Claim(a) /\ visited' = visited \cup {String(a.u)}
                                  /\ visitedCount' = maxNum)
             /\ ENABLED (Claim(b) /\ visited' = visited \cup {String(b.u)}
                                  /\ visitedCount' = maxNum)

\* A finished run of the fan under a limit of 2 that claimed the seed and
\* the last of its five links, not the first.
C24_Witness ==
    /\ Terminated
    /\ site = FanSite
    /\ maxNum = 2
    /\ visited = {String(Ux), String(Uw)}
    /\ ResultSet = {LinkStatus(String(Ux), 200, "nil"),
                    LinkStatus(String(Uw), 302, "redirect")}
    /\ \E t \in BagToSet(tasks) : String(t.u) = String(Uy) /\ t.st = "rejected"

====
